---- MODULE Spec2Model ----
(***************************************************************************)
(* A model of DrTorch's hyperparameter search harness                      *)
(* (DrTorch/model_selection.py) and of its loss / optimizer wrappers       *)
(* (DrTorch/wrappers.py).                                                  *)
(*                                                                         *)
(* Python values are modelled as follows.                                  *)
(*   dict            a function from key strings to values                 *)
(*   list            a sequence                                            *)
(*   Optional[X]     None is <<>>, a present value x is <<x>>              *)
(*   an object       a record of its attributes                            *)
(* The external collaborators (the model class, net.fit, pandas, joblib)   *)
(* are modelled by what the harness observes of them: every call is        *)
(* logged, a call may raise, and a value a call returns is a symbolic      *)
(* entry naming the invocation that produced it.                           *)
(***************************************************************************)
EXTENDS Integers, Sequences, FiniteSets, TLC

VARIABLES
    entry,                              \* which public function was called
    pc,                                 \* position in the called function
    model_hyperparameters_to_test,      \* model_selection.py:50 / :136
    training_hyperparameters_to_test,   \* model_selection.py:51 / :137
    model_hyperparameters_to_sample,    \* model_selection.py:103
    training_hyperparameters_to_sample, \* model_selection.py:104
    n_run,                              \* model_selection.py:106
    i,                                  \* model_selection.py:139
    model_d,                            \* Optional: model_selection.py:142
    training_d,                         \* Optional: model_selection.py:143
    seeds,                              \* model_selection.py:181
    save_loss_values,                   \* model_selection.py:182
    hyperparameters_key_to_save,        \* model_selection.py:179
    iterator,                           \* model_selection.py:176
    it_pos,                             \* items of iterator consumed so far
    idx,                                \* model_selection.py:271
    run_idx,                            \* model_selection.py:218
    history_idx,                        \* model_selection.py:226
    train_results,                      \* model_selection.py:259
    val_results,                        \* model_selection.py:260
    fitting_times,                      \* model_selection.py:269
    dataframe_dict,                     \* model_selection.py:206
    constructed,                        \* log of model_class(**kwargs) calls
    fits,                               \* log of net.fit(**kwargs) calls that returned
    hist_len,                           \* length of the history the last fit returned
    dumped,                             \* log of joblib.dump(df, path_to_results)
    returned,                           \* Optional: the value returned to the caller
    exception,                          \* Optional: the exception that left the call
    criterion,                          \* Optional: a Criterion object
    criterion_calls,                    \* log of criterion(predicted, target) calls
    criterion_strs,                     \* log of str(criterion) calls
    optimizer,                          \* Optional: an OptimizerWrapper object
    optimizer_args,                     \* the arguments OptimizerWrapper was built with
    get_calls,                          \* log of get_optimizer(net_params) calls
    ctor_calls                          \* log of optimizer_constructor(...) calls

searchVars ==
    <<model_hyperparameters_to_test, training_hyperparameters_to_test, n_run, i, model_d,
      training_d>>
inputVars ==
    <<model_hyperparameters_to_sample, training_hyperparameters_to_sample, seeds,
      save_loss_values, hyperparameters_key_to_save>>
loopVars == <<it_pos, idx, run_idx, history_idx, train_results, val_results, fitting_times>>
logVars == <<constructed, fits, hist_len, dumped, returned, exception>>
wrapperVars ==
    <<criterion, criterion_calls, criterion_strs, optimizer, optimizer_args, get_calls,
      ctor_calls>>
vars ==
    <<entry, pc, searchVars, inputVars, iterator, loopVars, dataframe_dict, logVars,
      wrapperVars>>

(***************************************************************************)
(* Bounds of the model.                                                    *)
(***************************************************************************)
\* longest list of candidate dictionaries given to the grid search
MaxLen == 2
\* largest n_run given to the randomized search
MaxRuns == 3
\* longest seed list
MaxSeeds == 2
\* longest history a fit call returns
MaxHist == 2
\* most calls made on one wrapper object
MaxCalls == 2

(***************************************************************************)
(* Python values.                                                          *)
(***************************************************************************)
None == <<>>
Some(v) == <<v>>
IsNone(o) == o = None
Get(o) == o[1]

\* range(n) as a list
range(n) == [k \in 1..n |-> k - 1]

\* sequences over S of length at most n
SeqUpTo(S, n) == UNION {[1..k -> S] : k \in 0..n}

\* dict.get(key, default)
DictGet(d, key, default) == IF key \in DOMAIN d THEN d[key] ELSE default

\* a copy of d with key popped
DictPop(d, key) == [k \in DOMAIN d \ {key} |-> d[k]]

\* a mutant of CopyAndPop: the key is popped from d itself
PopInPlace(d, key) == <<DictPop(d, key), DictPop(d, key)>>

\* new = d.copy(); new.pop(key): the pair of d afterwards and new
CopyAndPop(d, key) == <<d, DictPop(d, key)>>

\* {**a, **b}: the keys of both, b's values winning
DictMerge(a, b) == b @@ a

\* np.any([x == e for e in list])
AnyEqual(x, list) == \E k \in 1..Len(list) : x = list[k]

(***************************************************************************)
(* The hyperparameter dictionaries the model draws its inputs from.        *)
(***************************************************************************)
Loss == [name |-> "loss"]
Metric(n) == [name |-> n]
EarlyStopper(p) == [patience |-> p]

\* candidate training dictionaries of the grid search
TrainDicts ==
    { [criterion |-> Loss, batch_size |-> 8, lr |-> 1, metrics |-> <<Metric("acc")>>],
      [criterion |-> Loss, batch_size |-> 8, lr |-> 2, metrics |-> <<Metric("f1")>>,
       early_stopper |-> Some(EarlyStopper(1))],
      [criterion |-> Loss, batch_size |-> 8, lr |-> 3, early_stopper |-> None] }

\* candidate model dictionaries of the grid search
ModelDicts ==
    { [model_class |-> "Net", hidden |-> 1],
      [model_class |-> "Net", hidden |-> 2] }

\* the model_hyperparameters_to_sample dictionaries: a sampler is the set of
\* the values it can return
ModelSamplers == {[model_class |-> {"Net"}, hidden |-> h] : h \in {{1}, {1, 2}}}

\* the training_hyperparameters_to_sample dictionaries
TrainingSamplers ==
    {[criterion |-> {Loss}, batch_size |-> {8}, lr |-> l, metrics |-> {<<Metric("acc")>>}] :
        l \in {{1, 2}, {1, 2, 3}}}

\* every dictionary the loop of model_selection.py:144-145 can build from
\* the samplers s: one sampled value per key
ModelSamplesOf(s) == [model_class : s.model_class, hidden : s.hidden]

\* every dictionary the loop of model_selection.py:146-147 can build from
\* the samplers s
TrainingSamplesOf(s) ==
    [criterion : s.criterion, batch_size : s.batch_size, lr : s.lr, metrics : s.metrics]

ModelSamples == ModelSamplesOf(model_hyperparameters_to_sample)

TrainingSamples == TrainingSamplesOf(training_hyperparameters_to_sample)

\* the seed lists: None, or the first k of the seeds 11, 12, ...
SeedLists == {None} \cup {Some([k \in 1..n |-> 10 + k]) : n \in 0..MaxSeeds}

\* the hyperparameters_key_to_save lists
KeyLists == {<<>>, <<"lr", "hidden">>}

(***************************************************************************)
(* grid_search_train_validation and randomized_search_train_validation.    *)
(***************************************************************************)
\* a mutant of product: the second list as the outer index
productInnerFirst(a, b) ==
    [k \in 1..(Len(a) * Len(b)) |->
        <<a[((k - 1) % Len(a)) + 1], b[((k - 1) \div Len(a)) + 1]>>]

\* itertools.product(a, b) as a list: the first list is the outer index
product(a, b) ==
    [k \in 1..(Len(a) * Len(b)) |->
        <<a[((k - 1) \div Len(b)) + 1], b[((k - 1) % Len(b)) + 1]>>]

\* zip(a, b) as a list
zip(a, b) ==
    [k \in 1..(IF Len(a) < Len(b) THEN Len(a) ELSE Len(b)) |-> <<a[k], b[k]>>]

\* enumerate(list) as a list of (index, item) pairs
enumerate(list) == [k \in 1..Len(list) |-> <<k - 1, list[k]>>]

\* a mutant of Discarded: everything is discarded
DiscardedAlways(md, td) == TRUE

\* a mutant of Discarded: nothing is discarded
DiscardedNever(md, td) == FALSE

\* model_selection.py:149-152: the condition under which a sampled
\* combination is not appended
Discarded(md, td) ==
    LET model_hyperparameters_already_present ==
            AnyEqual(md, model_hyperparameters_to_test)
        training_hyperparameters_already_present ==
            AnyEqual(td, training_hyperparameters_to_test)
    IN  model_hyperparameters_already_present /\ training_hyperparameters_already_present

\* model_selection.py:81-95
GridSearch ==
    /\ entry = "grid_search_train_validation"
    /\ pc = "start"
    /\ iterator' =
          enumerate(product(training_hyperparameters_to_test, model_hyperparameters_to_test))
    /\ pc' = "collect_results"
    /\ UNCHANGED <<entry, searchVars, inputVars, loopVars, dataframe_dict, logVars, wrapperVars>>

\* model_selection.py:141-155, an iteration that appends the sampled pair
SampleAccept ==
    /\ entry = "randomized_search_train_validation"
    /\ pc = "start"
    /\ i < n_run
    /\ \E md \in ModelSamples, td \in TrainingSamples :
          /\ ~Discarded(md, td)
          /\ model_d' = Some(md)
          /\ training_d' = Some(td)
          /\ model_hyperparameters_to_test' = Append(model_hyperparameters_to_test, md)
          /\ training_hyperparameters_to_test' = Append(training_hyperparameters_to_test, td)
          /\ i' = i + 1
    /\ UNCHANGED <<entry, pc, n_run, inputVars, iterator, loopVars, dataframe_dict, logVars,
                   wrapperVars>>

\* model_selection.py:141-155, an iteration that drops the sampled pair
SampleDiscard ==
    /\ entry = "randomized_search_train_validation"
    /\ pc = "start"
    /\ i < n_run
    /\ \E md \in ModelSamples, td \in TrainingSamples :
          /\ Discarded(md, td)
          /\ model_d' = Some(md)
          /\ training_d' = Some(td)
    /\ UNCHANGED <<entry, pc, model_hyperparameters_to_test, training_hyperparameters_to_test,
                   n_run, i, inputVars, iterator, loopVars, dataframe_dict, logVars,
                   wrapperVars>>

\* model_selection.py:157-170
RandomizedHandOff ==
    /\ entry = "randomized_search_train_validation"
    /\ pc = "start"
    /\ ~(i < n_run)
    /\ iterator' =
          enumerate(zip(training_hyperparameters_to_test, model_hyperparameters_to_test))
    /\ pc' = "collect_results"
    /\ UNCHANGED <<entry, searchVars, inputVars, loopVars, dataframe_dict, logVars, wrapperVars>>

(***************************************************************************)
(* collect_results.                                                        *)
(*                                                                         *)
(* The dictionaries the model draws hold 'criterion', 'batch_size' and     *)
(* every key of hyperparameters_key_to_save, a model dictionary holds      *)
(* 'model_class', and the names of a combination's metrics differ from     *)
(* each other and from the criterion's name: no lookup of the loop raises  *)
(* KeyError.  Building the data loaders (model_selection.py:236-254) and   *)
(* the wandb logging touch none of the state modelled here.                *)
(***************************************************************************)
\* a mutant of test_iterator: one pass whatever the seeds
test_iteratorOnce(s) == range(1)

\* model_selection.py:202
test_iterator(s) == IF ~IsNone(s) THEN Get(s) ELSE range(1)

\* the item the outer loop of model_selection.py:220 holds
n_run_of_item == iterator[it_pos][1]
training_hyperparameters == iterator[it_pos][2][1]
model_hyperparameters == iterator[it_pos][2][2]

\* model_selection.py:234
total_hyperparameters == DictMerge(training_hyperparameters, model_hyperparameters)

\* model_selection.py:256-257
new_training_hyperparameters == CopyAndPop(training_hyperparameters, "batch_size")[2]

\* model_selection.py:284-285
new_model_hyperparameters == CopyAndPop(model_hyperparameters, "model_class")[2]

\* the iterator's items, which are the caller's dictionaries, after
\* model_selection.py:284-285
AfterModelCopy ==
    [iterator EXCEPT ![it_pos][2][2] = CopyAndPop(model_hyperparameters, "model_class")[1]]

\* the names of training_hyperparameters.get('metrics', [])
MetricNames(t) == {DictGet(t, "metrics", <<>>)[k].name : k \in DOMAIN DictGet(t, "metrics", <<>>)}

\* model_selection.py:224-228
HistoryIdx(t) ==
    LET early_stopper_exist == "early_stopper" \in DOMAIN t /\ ~IsNone(t["early_stopper"])
    IN  IF early_stopper_exist THEN -1 - Get(t["early_stopper"]).patience ELSE -1

\* whether list[index] addresses an entry of a list of length len (Python's
\* indexing: a negative index counts from the end), else IndexError
InRange(len, index) == IF index < 0 THEN -index <= len ELSE index < len

\* result[side][name][index] of the k-th fit call that returned: the entry
\* is named, its value is the collaborator's
Entry(side, name, k, index) == <<side, name, k, index>>

\* end_time - start_time of the k-th fit call that returned
FitTime(k) == <<"time", k>>

\* a mutant of Raise: the exception is caught and the loop goes on
RaiseSwallowed(e) ==
    /\ pc' = pc
    /\ exception' = Some(e)

\* an exception leaves collect_results: nothing in model_selection.py:202-336
\* catches it
Raise(e) ==
    /\ pc' = "raised"
    /\ exception' = Some(e)

\* pd.DataFrame(data=d) accepts columns of one length only
SameLength(d) == \A a, b \in DOMAIN d : Len(d[a]) = Len(d[b])

\* model_selection.py:202-218
CollectSetup ==
    /\ pc = "collect_results"
    /\ dataframe_dict' =
          [key \in {hyperparameters_key_to_save[k] : k \in DOMAIN hyperparameters_key_to_save}
                   \cup {"time", "seed"}
                   \cup (IF save_loss_values THEN {"train_loss", "val_loss"} ELSE {})
              |-> <<>>]
    /\ run_idx' = 0
    /\ pc' = "for_combination"
    /\ UNCHANGED <<entry, searchVars, inputVars, iterator, it_pos, idx, history_idx,
                   train_results, val_results, fitting_times, logVars, wrapperVars>>

\* model_selection.py:220-269: the outer loop takes its next item
StartCombination ==
    /\ pc = "for_combination"
    /\ it_pos < Len(iterator)
    /\ it_pos' = it_pos + 1
    /\ LET t == iterator[it_pos + 1][2][1]
       IN  /\ iterator' = [iterator EXCEPT ![it_pos + 1][2][1] = CopyAndPop(t, "batch_size")[1]]
           /\ history_idx' = HistoryIdx(t)
           /\ train_results' = [name \in {t["criterion"].name} \cup MetricNames(t) |-> <<>>]
           /\ val_results' = [name \in {t["criterion"].name} \cup MetricNames(t) |-> <<>>]
    /\ fitting_times' = <<>>
    /\ idx' = 0
    /\ pc' = "for_seed"
    /\ UNCHANGED <<entry, searchVars, inputVars, run_idx, dataframe_dict, logVars,
                   wrapperVars>>

\* model_selection.py:284-286: the model class is called and raises
ModelRaises ==
    /\ pc = "for_seed"
    /\ idx < Len(test_iterator(seeds))
    /\ iterator' = AfterModelCopy
    /\ Raise("ModelError")
    /\ UNCHANGED <<entry, searchVars, inputVars, loopVars, dataframe_dict,
                   constructed, fits, hist_len, dumped, returned, wrapperVars>>

\* model_selection.py:284-298: the model is built, net.fit raises
FitRaises ==
    /\ pc = "for_seed"
    /\ idx < Len(test_iterator(seeds))
    /\ constructed' = Append(constructed, [n_run |-> n_run_of_item,
                                           model_class |-> model_hyperparameters["model_class"],
                                           kwargs |-> new_model_hyperparameters])
    /\ iterator' = AfterModelCopy
    /\ Raise("FitError")
    /\ UNCHANGED <<entry, searchVars, inputVars, loopVars, dataframe_dict,
                   fits, hist_len, dumped, returned, wrapperVars>>

\* the fit call of one pass of the inner loop, as logged
FitCall ==
    [n_run |-> n_run_of_item,
     seed |-> IF ~IsNone(seeds) THEN Some(test_iterator(seeds)[idx + 1]) ELSE None,
     net |-> Len(constructed) + 1,
     run_idx |-> run_idx,
     kwargs |-> new_training_hyperparameters]

\* model_selection.py:271-309: one pass of the inner loop in which the
\* model is built and net.fit returns a history of some length
SeedRun ==
    /\ pc = "for_seed"
    /\ idx < Len(test_iterator(seeds))
    /\ constructed' = Append(constructed, [n_run |-> n_run_of_item,
                                           model_class |-> model_hyperparameters["model_class"],
                                           kwargs |-> new_model_hyperparameters])
    /\ iterator' = AfterModelCopy
    /\ fits' = Append(fits, FitCall)
    /\ fitting_times' = Append(fitting_times, FitTime(Len(fits)))
    /\ \E len \in 1..MaxHist :
          /\ hist_len' = len
          /\ IF InRange(len, history_idx)
             THEN /\ train_results' =
                        [name \in DOMAIN train_results |->
                            Append(train_results[name],
                                   Entry("train", name, Len(fits), history_idx))]
                  /\ val_results' =
                        [name \in DOMAIN val_results |->
                            Append(val_results[name],
                                   Entry("val", name, Len(fits), history_idx))]
                  /\ run_idx' = run_idx + 1
                  /\ idx' = idx + 1
                  /\ UNCHANGED <<pc, exception>>
             ELSE /\ Raise("IndexError")
                  /\ UNCHANGED <<train_results, val_results, run_idx, idx>>
    /\ UNCHANGED <<entry, searchVars, inputVars, it_pos, history_idx, dataframe_dict,
                   dumped, returned, wrapperVars>>

\* what model_selection.py:311-330 appends to column c for one combination
Appended(c) ==
    LET t == training_hyperparameters
        keys == {hyperparameters_key_to_save[k] : k \in DOMAIN hyperparameters_key_to_save}
        perSeed ==
            IF IsNone(seeds) THEN <<>>
            ELSE IF c = "seed" THEN Get(seeds)
            ELSE IF c = "time" THEN fitting_times
            ELSE IF c = "train_loss" /\ save_loss_values THEN train_results[t["criterion"].name]
            ELSE IF c = "val_loss" /\ save_loss_values THEN val_results[t["criterion"].name]
            ELSE IF \E m \in MetricNames(t) : c = m \o "_train"
                 THEN train_results[CHOOSE m \in MetricNames(t) : c = m \o "_train"]
            ELSE IF \E m \in MetricNames(t) : c = m \o "_val"
                 THEN val_results[CHOOSE m \in MetricNames(t) : c = m \o "_val"]
            ELSE <<>>
    IN  (IF c \in keys THEN <<total_hyperparameters[c]>> ELSE <<>>) \o perSeed

\* the columns of dataframe_dict after model_selection.py:311-330: a metric
\* column is created when the first seed of a combination listing it is
\* recorded
Columns ==
    DOMAIN dataframe_dict
        \cup (IF IsNone(seeds) \/ Get(seeds) = <<>> THEN {}
              ELSE {m \o "_train" : m \in MetricNames(training_hyperparameters)}
                   \cup {m \o "_val" : m \in MetricNames(training_hyperparameters)})

\* model_selection.py:311-330: the rows of one combination are recorded;
\* enumerate(seeds) raises TypeError when seeds is None
RecordCombination ==
    /\ pc = "for_seed"
    /\ ~(idx < Len(test_iterator(seeds)))
    /\ dataframe_dict' =
          [c \in Columns |->
              (IF c \in DOMAIN dataframe_dict THEN dataframe_dict[c] ELSE <<>>) \o Appended(c)]
    /\ IF IsNone(seeds)
       THEN Raise("TypeError")
       ELSE /\ pc' = "for_combination"
            /\ UNCHANGED exception
    /\ UNCHANGED <<entry, searchVars, inputVars, iterator, loopVars, constructed, fits,
                   hist_len, dumped, returned, wrapperVars>>

\* a mutant of BuildTable: the table is also written after each combination
BuildTableInLoop ==
    /\ pc = "for_combination"
    /\ SameLength(dataframe_dict)
    /\ dumped' = Append(dumped, dataframe_dict)
    /\ IF it_pos < Len(iterator)
       THEN UNCHANGED <<pc, returned>>
       ELSE /\ returned' = Some(dataframe_dict)
            /\ pc' = "done"
    /\ UNCHANGED <<entry, searchVars, inputVars, iterator, loopVars, dataframe_dict,
                   constructed, fits, hist_len, exception, wrapperVars>>

\* model_selection.py:332-336: the loop is over, the table is built,
\* written and returned
BuildTable ==
    /\ pc = "for_combination"
    /\ ~(it_pos < Len(iterator))
    /\ SameLength(dataframe_dict)
    /\ dumped' = Append(dumped, dataframe_dict)
    /\ returned' = Some(dataframe_dict)
    /\ pc' = "done"
    /\ UNCHANGED <<entry, searchVars, inputVars, iterator, loopVars, dataframe_dict,
                   constructed, fits, hist_len, exception, wrapperVars>>

\* model_selection.py:332: pd.DataFrame raises ValueError on columns of
\* different lengths
BuildTableRaises ==
    /\ pc = "for_combination"
    /\ ~(it_pos < Len(iterator))
    /\ ~SameLength(dataframe_dict)
    /\ Raise("ValueError")
    /\ UNCHANGED <<entry, searchVars, inputVars, iterator, loopVars, dataframe_dict,
                   constructed, fits, hist_len, dumped, returned, wrapperVars>>

(***************************************************************************)
(* wrappers.py: Criterion.                                                 *)
(*                                                                         *)
(* A tensor is a sequence of integers.  A loss function is one of two      *)
(* element-wise losses (built with reduction='none'), a reduction          *)
(* function one of torch.sum and torch.mean.                               *)
(***************************************************************************)
Abs(x) == IF x < 0 THEN -x ELSE x

RECURSIVE Sum(_)
Sum(v) == IF v = <<>> THEN 0 ELSE v[1] + Sum(Tail(v))

\* loss_function(predicted_labels, target_labels)
ApplyLoss(f, predicted, target) ==
    [k \in DOMAIN predicted |->
        IF f = "L1Loss"
        THEN Abs(predicted[k] - target[k])
        ELSE (predicted[k] - target[k]) * (predicted[k] - target[k])]

\* reduction_function(output)
ApplyReduction(r, output) ==
    IF r = "sum" THEN <<Sum(output)>> ELSE <<Sum(output) \div Len(output)>>

Tensors == [1..2 -> {0, 2}]

\* wrappers.py:26-38 and 73-86
CriterionInit ==
    /\ entry = "Criterion"
    /\ pc = "start"
    /\ \E name \in {"loss", "mse"}, loss_function \in {"L1Loss", "MSELoss"},
          reduction_function \in {None, Some("sum"), Some("mean")} :
          criterion' = Some([name |-> name,
                             reduction_function |-> reduction_function,
                             loss_function |-> loss_function])
    /\ pc' = "ready"
    /\ UNCHANGED <<entry, searchVars, inputVars, iterator, loopVars, dataframe_dict, logVars,
                   criterion_calls, criterion_strs, optimizer, optimizer_args, get_calls,
                   ctor_calls>>

\* wrappers.py:88-104
CriterionCall ==
    /\ entry = "Criterion"
    /\ pc = "ready"
    /\ Len(criterion_calls) < MaxCalls
    /\ \E predicted_labels \in Tensors, target_labels \in Tensors :
          LET output ==
                  ApplyLoss(Get(criterion).loss_function, predicted_labels, target_labels)
          IN  criterion_calls' =
                  Append(criterion_calls, [predicted_labels |-> predicted_labels,
                                           target_labels |-> target_labels,
                                           result |-> output])
    /\ UNCHANGED <<entry, pc, searchVars, inputVars, iterator, loopVars, dataframe_dict,
                   logVars, criterion, criterion_strs, optimizer, optimizer_args, get_calls,
                   ctor_calls>>

\* wrappers.py:40-41
CriterionStr ==
    /\ entry = "Criterion"
    /\ pc = "ready"
    /\ Len(criterion_strs) < MaxCalls
    /\ criterion_strs' = Append(criterion_strs, Get(criterion).name)
    /\ UNCHANGED <<entry, pc, searchVars, inputVars, iterator, loopVars, dataframe_dict,
                   logVars, criterion, criterion_calls, optimizer, optimizer_args, get_calls,
                   ctor_calls>>

(***************************************************************************)
(* wrappers.py: OptimizerWrapper.                                          *)
(*                                                                         *)
(* An optimizer class is the dotted path repr() prints for it, as the      *)
(* sequence of its parts.  A string built by += is the sequence of the     *)
(* pieces joined.                                                          *)
(***************************************************************************)
OptimizerClasses == {<<"torch", "optim", "adam", "Adam">>, <<"torch", "optim", "sgd", "SGD">>}

PartialParams == {None, Some([lr |-> 1]), Some([lr |-> 2, momentum |-> 9])}

NetParams == {"encoder.parameters", "decoder.parameters"}

\* wrappers.py:173-176
OptimizerName(optimizer_constructor, identifier) ==
    LET name == <<optimizer_constructor[Len(optimizer_constructor)]>>
    IN  IF identifier # "" THEN name \o <<" ", identifier>> ELSE name

\* a mutant of StoredPartialParams: the given parameters are dropped
StoredPartialParamsDropped(optimizer_partial_params) == <<>>

\* wrappers.py:178: dict() when no parameters were given
StoredPartialParams(optimizer_partial_params) ==
    IF IsNone(optimizer_partial_params) THEN <<>> ELSE Get(optimizer_partial_params)

\* wrappers.py:160-178
OptimizerInit ==
    /\ entry = "OptimizerWrapper"
    /\ pc = "start"
    /\ \E optimizer_constructor \in OptimizerClasses, identifier \in {"", "warmup"},
          optimizer_partial_params \in PartialParams :
          /\ optimizer_args' = [optimizer_constructor |-> optimizer_constructor,
                                identifier |-> identifier,
                                optimizer_partial_params |-> optimizer_partial_params]
          /\ optimizer' =
                Some([name |-> OptimizerName(optimizer_constructor, identifier),
                      optimizer_constructor |-> optimizer_constructor,
                      optimizer_partial_params |->
                          StoredPartialParams(optimizer_partial_params)])
    /\ pc' = "ready"
    /\ UNCHANGED <<entry, searchVars, inputVars, iterator, loopVars, dataframe_dict, logVars,
                   criterion, criterion_calls, criterion_strs, get_calls, ctor_calls>>

\* wrappers.py:190-200
GetOptimizer ==
    /\ entry = "OptimizerWrapper"
    /\ pc = "ready"
    /\ Len(get_calls) < MaxCalls
    /\ \E net_params \in NetParams :
          /\ get_calls' = Append(get_calls, net_params)
          /\ ctor_calls' =
                Append(ctor_calls, [constructor |-> Get(optimizer).optimizer_constructor,
                                    args |-> <<net_params>>,
                                    kwargs |-> Get(optimizer).optimizer_partial_params])
    /\ UNCHANGED <<entry, pc, searchVars, inputVars, iterator, loopVars, dataframe_dict,
                   logVars, criterion, criterion_calls, criterion_strs, optimizer,
                   optimizer_args>>

(***************************************************************************)
(* The specification.                                                      *)
(***************************************************************************)
\* a call is about to start: nothing has run yet
Idle ==
    /\ pc = "start"
    /\ i = 0
    /\ model_d = None
    /\ training_d = None
    /\ iterator = <<>>
    /\ it_pos = 0
    /\ idx = 0
    /\ run_idx = 0
    /\ history_idx = -1
    /\ train_results = <<>>
    /\ val_results = <<>>
    /\ fitting_times = <<>>
    /\ dataframe_dict = <<>>
    /\ constructed = <<>>
    /\ fits = <<>>
    /\ hist_len = 0
    /\ dumped = <<>>
    /\ returned = None
    /\ exception = None
    /\ criterion = None
    /\ criterion_calls = <<>>
    /\ criterion_strs = <<>>
    /\ optimizer = None
    /\ optimizer_args = None
    /\ get_calls = <<>>
    /\ ctor_calls = <<>>

Init ==
    /\ Idle
    /\ \/ /\ entry = "grid_search_train_validation"
          /\ model_hyperparameters_to_test \in SeqUpTo(ModelDicts, MaxLen)
          /\ training_hyperparameters_to_test \in SeqUpTo(TrainDicts, MaxLen)
          /\ model_hyperparameters_to_sample = <<>>
          /\ training_hyperparameters_to_sample = <<>>
          /\ n_run = 0
          /\ seeds \in SeedLists
          /\ save_loss_values \in BOOLEAN
          /\ hyperparameters_key_to_save \in KeyLists
       \/ /\ entry = "randomized_search_train_validation"
          /\ model_hyperparameters_to_test = <<>>
          /\ training_hyperparameters_to_test = <<>>
          /\ model_hyperparameters_to_sample \in ModelSamplers
          /\ training_hyperparameters_to_sample \in TrainingSamplers
          /\ n_run \in 0..MaxRuns
          /\ seeds \in SeedLists
          /\ save_loss_values \in BOOLEAN
          /\ hyperparameters_key_to_save \in KeyLists
       \/ /\ entry \in {"Criterion", "OptimizerWrapper"}
          /\ model_hyperparameters_to_test = <<>>
          /\ training_hyperparameters_to_test = <<>>
          /\ model_hyperparameters_to_sample = <<>>
          /\ training_hyperparameters_to_sample = <<>>
          /\ n_run = 0
          /\ seeds = None
          /\ save_loss_values = FALSE
          /\ hyperparameters_key_to_save = <<>>

Next ==
    \/ GridSearch
    \/ SampleAccept
    \/ SampleDiscard
    \/ RandomizedHandOff
    \/ CollectSetup
    \/ StartCombination
    \/ ModelRaises
    \/ FitRaises
    \/ SeedRun
    \/ RecordCombination
    \/ BuildTable
    \/ BuildTableRaises
    \/ CriterionInit
    \/ CriterionCall
    \/ CriterionStr
    \/ OptimizerInit
    \/ GetOptimizer

Spec == Init /\ [][Next]_vars

(***************************************************************************)
(* The sampling loop of randomized_search_train_validation under fair      *)
(* sampling: the loop keeps iterating, every dictionary the samplers of    *)
(* one argument can build is built again and again, and when the loop      *)
(* condition fails the function goes on to collect_results.                *)
(***************************************************************************)
AllModelSamples == UNION {ModelSamplesOf(s) : s \in ModelSamplers}

AllTrainingSamples == UNION {TrainingSamplesOf(s) : s \in TrainingSamplers}

\* model_selection.py:144-145: an iteration whose model samplers return md
SamplesModel(md) == (SampleAccept \/ SampleDiscard) /\ model_d' = Some(md)

\* model_selection.py:146-147: an iteration whose training samplers return td
SamplesTraining(td) == (SampleAccept \/ SampleDiscard) /\ training_d' = Some(td)

InitSampling == Init /\ entry = "randomized_search_train_validation"

NextSampling ==
    \/ SampleAccept
    \/ SampleDiscard
    \/ RandomizedHandOff

SpecSampling ==
    /\ InitSampling
    /\ [][NextSampling]_vars
    /\ \A md \in AllModelSamples : WF_vars(SamplesModel(md))
    /\ \A td \in AllTrainingSamples : WF_vars(SamplesTraining(td))
    /\ WF_vars(RandomizedHandOff)

(***************************************************************************)
(* The claims.                                                             *)
(***************************************************************************)
Searching == entry \in {"grid_search_train_validation", "randomized_search_train_validation"}

\* the outer loop of collect_results has taken every item of the iterator
LoopOver ==
    \/ pc = "done"
    \/ pc = "for_combination" /\ it_pos = Len(iterator)
    \/ exception = Some("ValueError")

\* C1: grid_search_train_validation hands collect_results one (training,
\* model) pair per element of the Cartesian product of the two lists:
\* len(training) * len(model) items, the pair of the a-th training and the
\* b-th model dictionary at position (a - 1) * len(model) + b and nowhere
\* else, numbered from 0 with the training list as the outer index.
C1_GridIsCartesianProduct ==
    (entry = "grid_search_train_validation" /\ pc # "start") =>
        LET T == training_hyperparameters_to_test
            M == model_hyperparameters_to_test
        IN  /\ Len(iterator) = Len(T) * Len(M)
            /\ \A a \in 1..Len(T), b \in 1..Len(M) :
                  iterator[(a - 1) * Len(M) + b] = <<(a - 1) * Len(M) + b - 1, <<T[a], M[b]>>>>

C1_Witness ==
    /\ entry = "grid_search_train_validation"
    /\ pc = "collect_results"
    /\ Len(training_hyperparameters_to_test) = 2
    /\ Len(model_hyperparameters_to_test) = 2
    /\ training_hyperparameters_to_test[1] # training_hyperparameters_to_test[2]
    /\ model_hyperparameters_to_test[1] # model_hyperparameters_to_test[2]

\* C2: after every iteration of the sampling loop the accepted count is i,
\* both lists have length i and no two accepted combinations are the same
\* (model dictionary, training dictionary) pair; when the loop is over
\* i = n_run and the i-th training dictionary is handed to collect_results
\* paired with the i-th model dictionary.
C2_AcceptedCombinations ==
    entry = "randomized_search_train_validation" =>
        LET T == training_hyperparameters_to_test
            M == model_hyperparameters_to_test
        IN  /\ Len(M) = i
            /\ Len(T) = i
            /\ i <= n_run
            /\ \A j, k \in 1..i : j # k => <<M[j], T[j]>> # <<M[k], T[k]>>
            /\ pc # "start" =>
                  /\ i = n_run
                  /\ Len(iterator) = n_run
                  /\ \A k \in 1..n_run : iterator[k] = <<k - 1, <<T[k], M[k]>>>>

C2_Witness ==
    /\ entry = "randomized_search_train_validation"
    /\ pc = "collect_results"
    /\ i = 3
    /\ training_hyperparameters_to_test[1] # training_hyperparameters_to_test[2]

\* C3: a sampled combination is discarded only when it is an exact
\* duplicate of an accepted one: after an iteration the sampled pair is
\* among the accepted pairs, as the pair just appended or as the earlier
\* pair it duplicates.
C3_DiscardedOnlyWhenDuplicate ==
    (entry = "randomized_search_train_validation" /\ ~IsNone(model_d)) =>
        \E k \in 1..i :
            /\ model_hyperparameters_to_test[k] = Get(model_d)
            /\ training_hyperparameters_to_test[k] = Get(training_d)

\* C4: for C combinations and a seed list of length S a new model is built
\* and fitted once per (combination, seed) pair, combination after
\* combination and in seed-list order, C * S fits when the loop is over,
\* and while collect_results runs run_idx is the number of fits completed.
C4_OneFitPerCombinationAndSeed ==
    (Searching /\ ~IsNone(seeds)) =>
        LET S == Len(Get(seeds))
        IN  /\ S = 0 => (fits = <<>> /\ constructed = <<>>)
            /\ \A k \in 1..Len(fits) :
                  /\ fits[k].n_run = (k - 1) \div S
                  /\ fits[k].seed = Some(Get(seeds)[((k - 1) % S) + 1])
                  /\ fits[k].net = k
                  /\ fits[k].run_idx = k - 1
            /\ Len(constructed) \in {Len(fits), Len(fits) + 1}
            /\ \A k \in 1..Len(constructed) : constructed[k].n_run = (k - 1) \div S
            /\ pc # "raised" =>
                  /\ run_idx = Len(fits)
                  /\ Len(constructed) = Len(fits)
            /\ LoopOver => Len(fits) = Len(iterator) * S

C4_Witness ==
    /\ Searching
    /\ pc = "done"
    /\ ~IsNone(seeds)
    /\ Len(Get(seeds)) = 2
    /\ Len(iterator) = 2
    /\ Len(fits) = 4

\* C5: when every combination has been processed every column of
\* dataframe_dict has one entry per training run.
C5_OneRowPerRun ==
    (Searching /\ pc = "for_combination" /\ it_pos = Len(iterator)) =>
        \A c \in DOMAIN dataframe_dict : Len(dataframe_dict[c]) = Len(fits)

\* C6: with seeds left at None every combination is trained once with no
\* seed set, and the call fails only when the model class or a fit does: it
\* otherwise returns the table it wrote.
C6_SeedsOptional ==
    (Searching /\ IsNone(seeds)) =>
        /\ \A k \in 1..Len(fits) : fits[k].n_run = k - 1 /\ IsNone(fits[k].seed)
        /\ pc = "raised" => exception \in {Some("ModelError"), Some("FitError"),
                                           Some("IndexError")}
        /\ pc = "done" => Len(fits) = Len(iterator) /\ ~IsNone(returned)

\* C7: the table is written once, only when the runs of every combination
\* and seed have finished, and the table returned is the table written.
C7_PersistedOnce ==
    Searching =>
        /\ Len(dumped) <= 1
        /\ pc = "done" <=> Len(dumped) = 1
        /\ ~IsNone(returned) <=> Len(dumped) = 1
        /\ Len(dumped) = 1 =>
              /\ returned = Some(dumped[1])
              /\ dumped[1] = dataframe_dict
              /\ it_pos = Len(iterator)
              /\ Len(fits) = Len(iterator) * Len(test_iterator(seeds))

C7_Witness ==
    /\ Searching
    /\ pc = "done"
    /\ Len(iterator) = 2
    /\ Len(fits) = 4
    /\ Len(dumped) = 1

\* C8: when the model class or a fit call raises, the exception leaves
\* collect_results: nothing has been written, nothing is returned, and from
\* then on no model is built, no fit is called and nothing is written.
C8_ExceptionPassesThrough ==
    /\ [](exception \in {Some("ModelError"), Some("FitError")} =>
            /\ pc = "raised"
            /\ dumped = <<>>
            /\ IsNone(returned))
    /\ [][(exception \in {Some("ModelError"), Some("FitError")}) =>
            (UNCHANGED <<constructed, fits, dumped, returned, exception, run_idx>>)]_vars

C8_Witness ==
    /\ pc = "raised"
    /\ exception = Some("FitError")
    /\ Len(fits) = 2
    /\ Len(constructed) = 3

\* C9: criterion(predicted, target) is reduction_function applied to
\* loss_function(predicted, target) when a reduction_function was given and
\* loss_function(predicted, target) itself when it is None; str(criterion)
\* is the name.
C9_ReductionApplied ==
    entry = "Criterion" =>
        /\ \A k \in 1..Len(criterion_calls) :
              LET call == criterion_calls[k]
                  loss == ApplyLoss(Get(criterion).loss_function, call.predicted_labels,
                                    call.target_labels)
              IN  call.result =
                      IF IsNone(Get(criterion).reduction_function) THEN loss
                      ELSE ApplyReduction(Get(Get(criterion).reduction_function), loss)
        /\ \A k \in 1..Len(criterion_strs) : criterion_strs[k] = Get(criterion).name

\* C10: building the wrapper calls optimizer_constructor not at all, every
\* get_optimizer(net_params) calls it once with net_params as the positional
\* argument and the given partial parameters (none when omitted) as keyword
\* arguments, and the wrapper's attributes stay as built.
C10_DeferredConstructor ==
    entry = "OptimizerWrapper" =>
        /\ IsNone(optimizer) => ctor_calls = <<>>
        /\ Len(ctor_calls) = Len(get_calls)
        /\ ~IsNone(optimizer) =>
              LET given == optimizer_args.optimizer_partial_params
                  kwargs == IF IsNone(given) THEN <<>> ELSE Get(given)
              IN  /\ \A k \in 1..Len(get_calls) :
                        /\ ctor_calls[k].constructor = optimizer_args.optimizer_constructor
                        /\ ctor_calls[k].args = <<get_calls[k]>>
                        /\ ctor_calls[k].kwargs = kwargs
                  /\ Get(optimizer).optimizer_constructor = optimizer_args.optimizer_constructor
                  /\ Get(optimizer).optimizer_partial_params = kwargs
                  /\ Get(optimizer).name =
                        OptimizerName(optimizer_args.optimizer_constructor,
                                      optimizer_args.identifier)

C10_Witness ==
    /\ entry = "OptimizerWrapper"
    /\ Len(ctor_calls) = 2
    /\ get_calls[1] # get_calls[2]
    /\ ~IsNone(optimizer_args.optimizer_partial_params)
    /\ optimizer_args.identifier # ""

Max(a, b) == IF a < b THEN b ELSE a

C12_HistoryReadInRange ==
    (Searching /\ pc \in {"for_seed", "raised"}) =>
        LET t == training_hyperparameters
            position ==
                IF "early_stopper" \in DOMAIN t /\ ~IsNone(t["early_stopper"])
                THEN -1 - Get(t["early_stopper"]).patience
                ELSE -1
        IN  /\ exception # Some("IndexError")
            /\ \A name \in DOMAIN train_results :
                  /\ \A k \in 1..Len(train_results[name]) :
                        train_results[name][k][4] = position
                  /\ \A k \in 1..Len(val_results[name]) :
                        val_results[name][k][4] = position

\* the items collect_results was handed, from the caller's lists
HandedOver ==
    IF entry = "grid_search_train_validation"
    THEN enumerate(product(training_hyperparameters_to_test, model_hyperparameters_to_test))
    ELSE enumerate(zip(training_hyperparameters_to_test, model_hyperparameters_to_test))

\* C13: collect_results leaves the caller's dictionaries as they were, with
\* 'batch_size' and 'model_class' in them; every model of a combination is
\* built with the combination's model dictionary less 'model_class' and
\* every fit is called with its training dictionary less 'batch_size'.
C13_CallerDictionariesUnchanged ==
    (Searching /\ pc # "start") =>
        /\ iterator = HandedOver
        /\ \A k \in 1..Len(iterator) :
              /\ "batch_size" \in DOMAIN iterator[k][2][1]
              /\ "model_class" \in DOMAIN iterator[k][2][2]
        /\ \A k \in 1..Len(constructed) :
              LET m == HandedOver[constructed[k].n_run + 1][2][2]
              IN  /\ "model_class" \notin DOMAIN constructed[k].kwargs
                  /\ DOMAIN constructed[k].kwargs = DOMAIN m \ {"model_class"}
                  /\ \A key \in DOMAIN constructed[k].kwargs : constructed[k].kwargs[key] = m[key]
                  /\ constructed[k].model_class = m["model_class"]
        /\ \A k \in 1..Len(fits) :
              LET t == HandedOver[fits[k].n_run + 1][2][1]
              IN  /\ "batch_size" \notin DOMAIN fits[k].kwargs
                  /\ DOMAIN fits[k].kwargs = DOMAIN t \ {"batch_size"}
                  /\ \A key \in DOMAIN fits[k].kwargs : fits[k].kwargs[key] = t[key]

C13_Witness ==
    /\ Searching
    /\ pc = "for_combination"
    /\ it_pos = 2
    /\ Len(iterator) = 2
    /\ iterator[1] # <<0, iterator[2][2]>>
    /\ ~IsNone(seeds)
    /\ Len(fits) = 4

====
